---- MODULE Spec2Model ----
(***************************************************************************)
(* Loan Qualifier (loan_qualifier/scratch.py).                             *)
(*                                                                         *)
(* run() is one linear, single-threaded pass:                              *)
(*   load_bank_data -> get_applicant_info -> find_qualifying_loans         *)
(*   -> save_qualifying_loans                                              *)
(* ended early by sys.exit (pc = "exit") or by an exception nothing        *)
(* catches (pc = "crashed").                                               *)
(*                                                                         *)
(* The collaborators imported at lines 14-24 (load_csv, save_csv, the two  *)
(* ratio calculators and the four filters) are not part of scratch.py;     *)
(* they are modelled from their documented contracts.                      *)
(*                                                                         *)
(* Numbers.  Currency amounts and credit scores are small naturals.  A     *)
(* ratio debt/income is kept as the exact pair <<debt, income>> and an     *)
(* offer's ratio limit k stands for k / LimitDen; comparisons are done by  *)
(* cross-multiplication.  Binary64 division is correctly rounded and       *)
(* monotone, and two distinct values of this model differ by far more      *)
(* than one ulp, so the float comparison and the exact one agree.          *)
(***************************************************************************)
EXTENDS Integers, Sequences, FiniteSets, TLC

(* ---------------------------- bounds ----------------------------------- *)
MaxRows == 2
MaxAmount == 2
MaxScore == 2
MaxDebt == 1
MaxLimit == 2

(* ------------------------- text and rows ------------------------------- *)
\* A text that int()/float() cannot convert.
NonNumeric == -1

Lender == "bank"

Amounts == 1..MaxAmount
Scores == 1..MaxScore

\* Column order of an offer row.
ColLender == 1
ColMaxLoan == 2
ColMaxLTV == 3
ColMinCredit == 4
ColMaxDTI == 5
ColRate == 6
NumCols == 6

Offer(maxLoan, maxLtv, minCredit, maxDti) ==
    <<Lender, maxLoan, maxLtv, minCredit, maxDti, 1>>

\* The offers of a rate sheet: each limit is either the most lenient or the
\* strictest value of its column; one offer is lenient in every column, four
\* are strict in one column each, one is strict in every column.
WellFormedRows ==
    { Offer(MaxAmount, MaxLimit, 1, MaxLimit),
      Offer(1, MaxLimit, 1, MaxLimit),
      Offer(MaxAmount, 1, 1, MaxLimit),
      Offer(MaxAmount, MaxLimit, MaxScore, MaxLimit),
      Offer(MaxAmount, MaxLimit, 1, 1),
      Offer(1, 1, MaxScore, 1) }

\* Rows a rate sheet can hold that are not offers: a short row, and a row
\* with a non-numeric text in a column a later filter reads.
MalformedRows ==
    { <<Lender, MaxAmount, MaxLimit, 1>>,
      <<Lender, MaxAmount, MaxLimit, 1, NonNumeric, 1>> }

Rows == WellFormedRows \cup MalformedRows

RECURSIVE SeqsUpTo(_, _)
SeqsUpTo(S, n) ==
    IF n = 0 THEN {<<>>}
    ELSE LET shorter == SeqsUpTo(S, n - 1)
         IN  shorter \cup {Append(s, x) : s \in {t \in shorter : Len(t) = n - 1}, x \in S}

Tables == SeqsUpTo(Rows, MaxRows)

Field(row, col) == IF col \in DOMAIN row THEN row[col] ELSE NonNumeric

Malformed(row) ==
    \/ Len(row) # NumCols
    \/ \E col \in ColMaxLoan..ColRate : row[col] = NonNumeric

(* ------------------------- ratio calculator ---------------------------- *)
calculate_monthly_debt_ratio(debt, income) == <<debt, income>>

calculate_loan_to_value_ratio(loan, home_value) == <<loan, home_value>>

\* The division fails when the divisor is zero.
DivisionRaises(divisor) == divisor = 0

\* A ratio limit k of an offer row stands for k / LimitDen: the limits lie on
\* the grid of the ratios whose divisor is the largest amount.
LimitDen == MaxAmount

\* ratio <= limit / LimitDen
RatioWithin(ratio, limit) == ratio[1] * LimitDen <= limit * ratio[2]

(* ------------------------------ filters -------------------------------- *)
filter_max_loan_size(loan, bank_list) ==
    SelectSeq(bank_list, LAMBDA bank : loan <= Field(bank, ColMaxLoan))

filter_credit_score(credit_score, bank_list) ==
    SelectSeq(bank_list,
              LAMBDA bank : /\ Field(bank, ColMinCredit) # NonNumeric
                            /\ credit_score >= Field(bank, ColMinCredit))

filter_debt_to_income(monthly_debt_ratio, bank_list) ==
    SelectSeq(bank_list,
              LAMBDA bank : /\ Field(bank, ColMaxDTI) # NonNumeric
                            /\ RatioWithin(monthly_debt_ratio, Field(bank, ColMaxDTI)))

filter_loan_to_value(loan_to_value_ratio, bank_list) ==
    SelectSeq(bank_list,
              LAMBDA bank : /\ Field(bank, ColMaxLTV) # NonNumeric
                            /\ RatioWithin(loan_to_value_ratio, Field(bank, ColMaxLTV)))

\* A filter fails with ValidationError on a malformed record of its input.
ValidationRaises(bank_list) ==
    \E i \in DOMAIN bank_list : Malformed(bank_list[i])

(* ------------------------- find_qualifying_loans ----------------------- *)
\* The qualification filters of find_qualifying_loans, in their fixed order:
\* the first reads the loaded table, each later one the previous result.
NumStages == 4

StageInput(n, bank_data_, filtered) == IF n = 1 THEN bank_data_ ELSE filtered

StageName(n) ==
    CASE n = 1 -> "filter_max_loan_size"
      [] n = 2 -> "filter_credit_score"
      [] n = 3 -> "filter_debt_to_income"
      [] OTHER -> "filter_loan_to_value"

\* Variant: the two ratios are passed to the wrong filters.
ApplyStage_swapped_ratios(n, bank_data_, filtered, credit_score, loan, dti, ltv) ==
    CASE n = 1 -> filter_max_loan_size(loan, bank_data_)
      [] n = 2 -> filter_credit_score(credit_score, filtered)
      [] n = 3 -> filter_debt_to_income(ltv, filtered)
      [] OTHER -> filter_loan_to_value(dti, filtered)

\* Variant: each result is appended to the previous one instead of replacing it.
ApplyStage_accumulate(n, bank_data_, filtered, credit_score, loan, dti, ltv) ==
    CASE n = 1 -> filter_max_loan_size(loan, bank_data_)
      [] n = 2 -> filtered \o filter_credit_score(credit_score, filtered)
      [] n = 3 -> filtered \o filter_debt_to_income(dti, filtered)
      [] OTHER -> filtered \o filter_loan_to_value(ltv, filtered)

\* Variant: the credit score filter is left out (the loan size filter runs twice).
ApplyStage_skip_credit(n, bank_data_, filtered, credit_score, loan, dti, ltv) ==
    CASE n = 1 -> filter_max_loan_size(loan, bank_data_)
      [] n = 2 -> filter_max_loan_size(loan, filtered)
      [] n = 3 -> filter_debt_to_income(dti, filtered)
      [] OTHER -> filter_loan_to_value(ltv, filtered)

\* Variant: every filter reads the loaded table again.
ApplyStage_original(n, bank_data_, filtered, credit_score, loan, dti, ltv) ==
    CASE n = 1 -> filter_max_loan_size(loan, bank_data_)
      [] n = 2 -> filter_credit_score(credit_score, bank_data_)
      [] n = 3 -> filter_debt_to_income(dti, bank_data_)
      [] OTHER -> filter_loan_to_value(ltv, bank_data_)

ApplyStage(n, bank_data_, filtered, credit_score, loan, dti, ltv) ==
    CASE n = 1 -> filter_max_loan_size(loan, bank_data_)
      [] n = 2 -> filter_credit_score(credit_score, filtered)
      [] n = 3 -> filter_debt_to_income(dti, filtered)
      [] OTHER -> filter_loan_to_value(ltv, filtered)

\* Nothing in find_qualifying_loans or run catches an exception: a call that
\* raises ends the run, otherwise control moves to the next statement.
\* Variant: the exception is swallowed and the run goes on.
AfterCall_swallow(raised, next) == next

AfterCall(raised, next) == IF raised THEN "crashed" ELSE next

\* Arguments of the two calculator calls (lines 95 and 99).
\* Variant: debt and income are passed in the wrong order.
DebtRatioArgs_swapped(a) == <<a.income, a.debt>>

DebtRatioArgs(a) == <<a.debt, a.income>>

LoanRatioArgs(a) == <<a.loan, a.home_value>>

(* ------------------------- save_qualifying_loans ----------------------- *)
\* Variant: the emptiness test never fires.
NoQualifyingLoans_never(loans) == Len(loans) < 0

NoQualifyingLoans(loans) == Len(loans) < 1

\* Variant: the answer to the confirmation is ignored.
WantsSave_always(answer) == answer \in {"yes", "no"}

WantsSave(answer) == answer = "yes"

RowsToSave(loans) == loans

(* --------------------------- load_bank_data ---------------------------- *)
\* Variant: the existence test never fires.
PathMissing_never(exists) == exists /\ ~exists

PathMissing(exists) == ~exists

(* ------------------------------- state --------------------------------- *)
VARIABLES
    pc,                  \* position of run()
    err,                 \* why the run ended early ("" if it did not)
    input_path,          \* "unasked", or whether the path given exists
    bank_data,           \* run: the loaded table
    applicant,           \* run: the five converted answers
    monthly_debt_ratio,  \* find_qualifying_loans local
    loan_to_value_ratio, \* find_qualifying_loans local
    bank_data_filtered,  \* find_qualifying_loans local
    stage,               \* number of filters that have returned
    qualifying_loans,    \* run: the value find_qualifying_loans returned
    save_prompt,         \* save_qualifying_loans: answer to the confirmation
    calls,               \* history: prompts and collaborator calls, in order
    written              \* history: row lists handed to save_csv, in order

vars == <<pc, err, input_path, bank_data, applicant, monthly_debt_ratio,
          loan_to_value_ratio, bank_data_filtered, stage, qualifying_loans,
          save_prompt, calls, written>>

NoApplicant == [credit_score |-> 0, debt |-> 0, income |-> 0, loan |-> 0, home_value |-> 0]

NoRatio == <<0, 0>>

Init ==
    /\ pc = "load_bank_data"
    /\ err = ""
    /\ input_path = "unasked"
    /\ bank_data = <<>>
    /\ applicant = NoApplicant
    /\ monthly_debt_ratio = NoRatio
    /\ loan_to_value_ratio = NoRatio
    /\ bank_data_filtered = <<>>
    /\ stage = 0
    /\ qualifying_loans = <<>>
    /\ save_prompt = "unasked"
    /\ calls = <<>>
    /\ written = <<>>

(* ------------------------------ actions -------------------------------- *)
\* load_bank_data: ask for the path; exit if it does not exist, else call the
\* loader, which returns the data rows or fails (NotFoundError, ParseError).
load_bank_data ==
    /\ pc = "load_bank_data"
    /\ \E exists \in BOOLEAN, parses \in BOOLEAN, table \in Tables :
         /\ input_path' = IF exists THEN "present" ELSE "missing"
         /\ IF PathMissing(exists)
            THEN /\ pc' = "exit"
                 /\ err' = "InputNotFound"
                 /\ calls' = calls \o <<"ask_input_path">>
                 /\ bank_data' = bank_data
            ELSE LET loaded == exists /\ parses
                     nxt == AfterCall(~loaded, "get_applicant_info")
                 IN  /\ pc' = nxt
                     /\ err' = IF loaded THEN err
                               ELSE IF exists THEN "ParseError" ELSE "NotFoundError"
                     /\ calls' = calls \o <<"ask_input_path", "load_csv">>
                     /\ bank_data' = IF loaded THEN table ELSE bank_data
    /\ UNCHANGED <<applicant, monthly_debt_ratio, loan_to_value_ratio,
                   bank_data_filtered, stage, qualifying_loans, save_prompt, written>>

\* get_applicant_info: five prompts, then int()/float() on the five answers.
get_applicant_info ==
    /\ pc = "get_applicant_info"
    /\ \E credit_score \in Scores \cup {NonNumeric},
          debt \in (0..MaxDebt) \cup {NonNumeric},
          income \in (0..MaxAmount) \cup {NonNumeric},
          loan \in Amounts \cup {NonNumeric},
          home_value \in (0..MaxAmount) \cup {NonNumeric} :
         LET bad == NonNumeric \in {credit_score, debt, income, loan, home_value}
         IN  /\ pc' = AfterCall(bad, "calculate_monthly_debt_ratio")
             /\ err' = IF bad THEN "ValueError" ELSE err
             /\ applicant' = IF bad THEN applicant
                             ELSE [credit_score |-> credit_score, debt |-> debt,
                                   income |-> income, loan |-> loan,
                                   home_value |-> home_value]
    /\ calls' = Append(calls, "ask_profile")
    /\ UNCHANGED <<input_path, bank_data, monthly_debt_ratio, loan_to_value_ratio,
                   bank_data_filtered, stage, qualifying_loans, save_prompt, written>>

\* find_qualifying_loans, lines 95-96.
monthly_debt_ratio_step ==
    /\ pc = "calculate_monthly_debt_ratio"
    /\ LET args == DebtRatioArgs(applicant)
           raised == DivisionRaises(args[2])
           nxt == AfterCall(raised, "calculate_loan_to_value_ratio")
       IN  /\ pc' = nxt
           /\ err' = IF nxt = "crashed" THEN "DivisionError" ELSE err
           /\ monthly_debt_ratio' =
                 IF nxt = "crashed" THEN monthly_debt_ratio
                 ELSE calculate_monthly_debt_ratio(args[1], args[2])
    /\ calls' = Append(calls, "calculate_monthly_debt_ratio")
    /\ UNCHANGED <<input_path, bank_data, applicant, loan_to_value_ratio,
                   bank_data_filtered, stage, qualifying_loans, save_prompt, written>>

\* find_qualifying_loans, lines 99-100.
loan_to_value_ratio_step ==
    /\ pc = "calculate_loan_to_value_ratio"
    /\ LET args == LoanRatioArgs(applicant)
           raised == DivisionRaises(args[2])
           nxt == AfterCall(raised, "filter")
       IN  /\ pc' = nxt
           /\ err' = IF nxt = "crashed" THEN "DivisionError" ELSE err
           /\ loan_to_value_ratio' =
                 IF nxt = "crashed" THEN loan_to_value_ratio
                 ELSE calculate_loan_to_value_ratio(args[1], args[2])
    /\ calls' = Append(calls, "calculate_loan_to_value_ratio")
    /\ UNCHANGED <<input_path, bank_data, applicant, monthly_debt_ratio,
                   bank_data_filtered, stage, qualifying_loans, save_prompt, written>>

\* find_qualifying_loans, lines 103-106: one filter call and its assignment.
filter_step ==
    /\ pc = "filter"
    /\ stage < NumStages
    /\ LET n == stage + 1
           raised == ValidationRaises(StageInput(n, bank_data, bank_data_filtered))
           nxt == AfterCall(raised, IF n = NumStages THEN "return" ELSE "filter")
       IN  /\ pc' = nxt
           /\ err' = IF nxt = "crashed" THEN "ValidationError" ELSE err
           /\ stage' = IF nxt = "crashed" THEN stage ELSE n
           /\ bank_data_filtered' =
                 IF nxt = "crashed" THEN bank_data_filtered
                 ELSE ApplyStage(n, bank_data, bank_data_filtered,
                                 applicant.credit_score, applicant.loan,
                                 monthly_debt_ratio, loan_to_value_ratio)
           /\ calls' = Append(calls, StageName(n))
    /\ UNCHANGED <<input_path, bank_data, applicant, monthly_debt_ratio,
                   loan_to_value_ratio, qualifying_loans, save_prompt, written>>

\* find_qualifying_loans, lines 108-112, and the assignment in run.
return_step ==
    /\ pc = "return"
    /\ pc' = "save_qualifying_loans"
    /\ qualifying_loans' = bank_data_filtered
    /\ UNCHANGED <<err, input_path, bank_data, applicant, monthly_debt_ratio,
                   loan_to_value_ratio, bank_data_filtered, stage, save_prompt,
                   calls, written>>

\* save_qualifying_loans: exit on an empty list; else confirm and, on yes, ask
\* for the output path and hand the list to the writer, which may fail.
save_qualifying_loans ==
    /\ pc = "save_qualifying_loans"
    /\ \E answer \in {"yes", "no"}, writes \in BOOLEAN :
         IF NoQualifyingLoans(qualifying_loans)
         THEN /\ pc' = "exit"
              /\ err' = "EmptyResultSet"
              /\ UNCHANGED <<save_prompt, calls, written>>
         ELSE /\ save_prompt' = answer
              /\ IF WantsSave(answer)
                 THEN /\ calls' = calls \o <<"confirm", "ask_output_path", "save_csv">>
                      /\ written' = Append(written, RowsToSave(qualifying_loans))
                      /\ pc' = AfterCall(~writes, "done")
                      /\ err' = IF writes THEN err ELSE "WriteError"
                 ELSE /\ calls' = Append(calls, "confirm")
                      /\ written' = written
                      /\ pc' = "done"
                      /\ err' = err
    /\ UNCHANGED <<input_path, bank_data, applicant, monthly_debt_ratio,
                   loan_to_value_ratio, bank_data_filtered, stage, qualifying_loans>>

Next ==
    \/ load_bank_data
    \/ get_applicant_info
    \/ monthly_debt_ratio_step
    \/ loan_to_value_ratio_step
    \/ filter_step
    \/ return_step
    \/ save_qualifying_loans

Spec == Init /\ [][Next]_vars

(* ------------------------- helpers of the properties ------------------- *)
Range(seq) == {seq[i] : i \in DOMAIN seq}

Count(seq, x) == Cardinality({i \in DOMAIN seq : seq[i] = x})

RECURSIVE IsSubseq(_, _)
IsSubseq(s, t) ==
    IF s = <<>> THEN TRUE
    ELSE IF t = <<>> THEN FALSE
    ELSE IF Head(s) = Head(t) THEN IsSubseq(Tail(s), Tail(t))
    ELSE IsSubseq(s, Tail(t))

\* The four conditions of a qualifying loan, on the applicant's own numbers.
LoanSizeOK(bank, a) == a.loan <= bank[ColMaxLoan]
CreditOK(bank, a) == a.credit_score >= bank[ColMinCredit]
DebtToIncomeOK(bank, a) == a.debt * LimitDen <= bank[ColMaxDTI] * a.income
LoanToValueOK(bank, a) == a.loan * LimitDen <= bank[ColMaxLTV] * a.home_value

Qualifies(bank, a) ==
    /\ LoanSizeOK(bank, a)
    /\ CreditOK(bank, a)
    /\ DebtToIncomeOK(bank, a)
    /\ LoanToValueOK(bank, a)

AtBoundary(bank, a) ==
    /\ a.loan = bank[ColMaxLoan]
    /\ a.credit_score = bank[ColMinCredit]
    /\ a.debt * LimitDen = bank[ColMaxDTI] * a.income
    /\ a.loan * LimitDen = bank[ColMaxLTV] * a.home_value

\* All four filters have returned.
Filtered == stage = NumStages

\* find_qualifying_loans has returned to run.
Returned == Filtered /\ pc # "return"

ProfileGiven == applicant # NoApplicant

\* The list a stage reads: the loaded table before the first filter.
Candidate == IF stage = 0 THEN bank_data ELSE bank_data_filtered

\* One filter, by its place in the fixed order, on any list.
FilterBy(k, list) ==
    CASE k = 1 -> filter_max_loan_size(applicant.loan, list)
      [] k = 2 -> filter_credit_score(applicant.credit_score, list)
      [] k = 3 -> filter_debt_to_income(<<applicant.debt, applicant.income>>, list)
      [] OTHER -> filter_loan_to_value(<<applicant.loan, applicant.home_value>>, list)

FilterOrders == {p \in [1..NumStages -> 1..NumStages] :
                    \A i, j \in 1..NumStages : p[i] = p[j] => i = j}

RECURSIVE ApplyInOrder(_, _, _)
ApplyInOrder(p, k, list) ==
    IF k > NumStages THEN list ELSE ApplyInOrder(p, k + 1, FilterBy(p[k], list))

SaveCalls == {"confirm", "ask_output_path", "save_csv"}

FilterCalls == {StageName(n) : n \in 1..NumStages}

CallsOfASave ==
    <<"ask_input_path", "load_csv", "ask_profile", "calculate_monthly_debt_ratio",
      "calculate_loan_to_value_ratio", "filter_max_loan_size", "filter_credit_score",
      "filter_debt_to_income", "filter_loan_to_value", "confirm", "ask_output_path",
      "save_csv">>

(* ------------------------------ properties ----------------------------- *)
\* C1: once the four filters have returned, the result is exactly the rows of
\* the loaded table that meet all four inclusive conditions (loan <= max loan,
\* credit score >= minimum, debt/income <= max DTI, loan/value <= max LTV), in
\* table order, and that is the list handed back to run.
C1_ExactlyQualifying ==
    Filtered =>
        /\ bank_data_filtered = SelectSeq(bank_data, LAMBDA bank : Qualifies(bank, applicant))
        /\ Returned => qualifying_loans = bank_data_filtered

\* A row at the boundary of all four limits is kept, a row exceeding one is dropped.
C1_Witness ==
    /\ Filtered
    /\ Len(bank_data) = 2
    /\ bank_data_filtered = <<bank_data[1]>>
    /\ AtBoundary(bank_data[1], applicant)
    /\ ~Qualifies(bank_data[2], applicant)

\* C2: for a non-empty table, the returned list is a subsequence of the loaded
\* table: only rows of the table, none more often than in the table, in the
\* table's order.
C2_Subsequence ==
    (Filtered /\ bank_data # <<>>) =>
        /\ IsSubseq(bank_data_filtered, bank_data)
        /\ Returned => IsSubseq(qualifying_loans, bank_data)

C2_Witness ==
    /\ Returned
    /\ Len(qualifying_loans) = 2
    /\ qualifying_loans[1] # qualifying_loans[2]

\* C3: when find_qualifying_loans returns, applying the four filters to the
\* loaded table in any of the 24 orders gives the result of the fixed order
\* loan size, credit score, DTI, LTV.
C3_OrderIndependent ==
    pc = "return" => \A p \in FilterOrders : ApplyInOrder(p, 1, bank_data) = bank_data_filtered

\* One row survives, the other is dropped by the credit score filter alone.
C3_Witness ==
    /\ pc = "return"
    /\ Len(bank_data) = 2
    /\ Len(bank_data_filtered) = 1
    /\ \E i \in 1..2 :
         /\ ~CreditOK(bank_data[i], applicant)
         /\ LoanSizeOK(bank_data[i], applicant)
         /\ DebtToIncomeOK(bank_data[i], applicant)
         /\ LoanToValueOK(bank_data[i], applicant)

\* C4: with an empty result the save step exits fatally: no confirmation, no
\* output path prompt, no writer call, nothing written.
C4_EmptyResultNotSaved ==
    (Filtered /\ bank_data_filtered = <<>>) =>
        /\ written = <<>>
        /\ save_prompt = "unasked"
        /\ Range(calls) \cap SaveCalls = {}
        /\ pc \in {"return", "save_qualifying_loans", "exit"}
        /\ pc = "exit" => err = "EmptyResultSet"

C4_Witness ==
    /\ Filtered
    /\ bank_data # <<>>
    /\ bank_data_filtered = <<>>
    /\ pc = "exit"
    /\ err = "EmptyResultSet"

\* C5: when the input path does not exist the run has exited right after the
\* path prompt: no loader call, no profile prompt, no ratio, no filter, no
\* writer call.
C5_InputNotFound ==
    input_path = "missing" =>
        /\ pc = "exit"
        /\ err = "InputNotFound"
        /\ calls = <<"ask_input_path">>
        /\ bank_data = <<>>
        /\ ~ProfileGiven
        /\ monthly_debt_ratio = NoRatio /\ loan_to_value_ratio = NoRatio
        /\ stage = 0
        /\ written = <<>>

C5_Witness == input_path = "missing" /\ pc = "exit"

\* C6: with zero income or zero home value the run ends with DivisionError in
\* a ratio calculation: no filter is ever called, no list is returned, the
\* save step is not reached; and no filter is ever called with a ratio whose
\* divisor is zero.
C6_DivisionError ==
    /\ (ProfileGiven /\ (applicant.income = 0 \/ applicant.home_value = 0)) =>
          /\ pc \in {"calculate_monthly_debt_ratio", "calculate_loan_to_value_ratio", "crashed"}
          /\ pc = "crashed" => err = "DivisionError"
          /\ Range(calls) \cap (FilterCalls \cup SaveCalls) = {}
          /\ stage = 0
          /\ qualifying_loans = <<>>
          /\ written = <<>>
    /\ Range(calls) \cap FilterCalls # {} =>
          monthly_debt_ratio[2] # 0 /\ loan_to_value_ratio[2] # 0

C6_Witness ==
    /\ ProfileGiven
    /\ applicant.income = 0
    /\ applicant.debt > 0
    /\ bank_data # <<>>
    /\ pc = "crashed"
    /\ err = "DivisionError"

\* C7: each filter reads the previous filter's result; a filter step never
\* adds a row or lengthens the candidate list, the first candidate list is the
\* loaded table, and the loaded table never changes after loading.
C7_MonotoneNarrowing ==
    [][ /\ stage' = stage + 1 =>
             /\ Range(Candidate') \subseteq Range(Candidate)
             /\ Len(Candidate') <= Len(Candidate)
             /\ Candidate' = FilterBy(stage', Candidate)
        /\ pc # "load_bank_data" => bank_data' = bank_data ]_vars

\* After two filters the list is empty although a row of the table passes the
\* second filter: the second filter did not read the table.
C7_Witness ==
    /\ stage = 2
    /\ Len(bank_data) = 2
    /\ bank_data_filtered = <<>>
    /\ \E i \in 1..2 : CreditOK(bank_data[i], applicant)

C10_WriterOnceLast ==
    /\ Len(written) <= 1
    /\ Count(calls, "save_csv") = Len(written)
    /\ written # <<>> =>
          /\ calls = CallsOfASave
          /\ Filtered
          /\ save_prompt = "yes"
          /\ qualifying_loans # <<>>
          /\ qualifying_loans = bank_data_filtered
          /\ written[1] = qualifying_loans
    /\ save_prompt = "no" =>
          /\ pc = "done"
          /\ err = ""
          /\ written = <<>>

C10_Witness ==
    /\ pc = "done"
    /\ written # <<>>
    /\ Len(written[1]) < Len(bank_data)

====
